---------------------------- MODULE Spec2Model ----------------------------
(***************************************************************************)
(* A model of the Nitro enclave entry point of tmkms-light                 *)
(* (src/providers/nitro/nitro-enclave/src/nitro.rs): `entry`, which reads  *)
(* one request from the host and either unseals the keys and drives the    *)
(* signing session forever (Start) or generates, seals and attests a fresh *)
(* key (Keygen); `get_connection` and `get_secret_connection`, which       *)
(* establish the validator connection.                                     *)
(*                                                                         *)
(* The external collaborators (the KMS sealing oracle, the NSM attestation *)
(* device, the vsock sockets, the state store and the Session's request    *)
(* loop) are the environment: each of their calls is a nondeterministic    *)
(* choice among the results the call can have.                             *)
(***************************************************************************)
EXTENDS Integers, Sequences, FiniteSets, TLC

\* ------------------------------------------------------------------ bounds
\* How far the per-call counters of failed attempts and sleeps count before
\* they saturate.
MaxFails == 2
\* Peer identities are byte strings of this length (tendermint's are 20).
IdLen == 2
\* Connection serial numbers wrap around after this many.
ConnSerials == 3
\* The highest height the session state reaches.
MaxHeight == 2

\* ------------------------------------------------------- program constants
\* ed25519::SigningKey::try_from accepts exactly this many bytes.
KeySize == 32

\* ------------------------------------------------------------------- data
\* Option: None, or Some(x).
None == [none |-> TRUE]
Some(x) == [some |-> x]

Min(a, b) == IF a < b THEN a ELSE b

Pattern(n, a, c) == [i \in 1..n |-> (a * i + c) % 256]

\* zeroize: every byte of the buffer's memory is overwritten with zero.
Zeroed(bytes) == [i \in 1..Len(bytes) |-> 0]

\* Two valid seeds, and plaintexts that are no key (too short, too long, empty).
SeedA == Pattern(KeySize, 7, 3)
SeedB == Pattern(KeySize, 11, 200)
Seeds == {SeedA, SeedB}
Plaintexts == Seeds \cup {Pattern(KeySize - 1, 7, 3), Pattern(KeySize + 1, 7, 3)}

\* The public (verification) key of a seed: injective, and not the seed.
VerificationKey(seed) == [i \in 1..Len(seed) |-> (3 * seed[i] + i) % 256]

\* A key made of whatever bytes there are, without the length check.
SigningKeyTryFrom_AnyLength(bytes) == [seed |-> bytes]

\* ed25519::SigningKey::try_from(&[u8]): a key exactly when the slice has
\* KeySize bytes.
SigningKeyTryFrom(bytes) ==
    IF Len(bytes) = KeySize THEN [seed |-> bytes] ELSE None

\* KMS key ids ("abc", "k") and what the sealing oracle produces: an opaque
\* blob that the oracle (and nobody else) opens again.
KeyIds == {<<97, 98, 99>>, <<107>>}
Seal(kid, pt) == [kid |-> kid, pt |-> pt]
Unseal(ct) == ct.pt
Ciphertexts == {Seal(<<107>>, pt) : pt \in Plaintexts}

IdBytes == {7, 9}
PeerIds == [1..IdLen -> IdBytes]

\* ----------------------------------------------------------------- base64
B64Alphabet ==
    << "A","B","C","D","E","F","G","H","I","J","K","L","M","N","O","P",
       "Q","R","S","T","U","V","W","X","Y","Z","a","b","c","d","e","f",
       "g","h","i","j","k","l","m","n","o","p","q","r","s","t","u","v",
       "w","x","y","z","0","1","2","3","4","5","6","7","8","9","+","/" >>

B64Char(n) == B64Alphabet[n + 1]

\* One group of up to three bytes starting at s[i].
B64Group(s, i) ==
    LET b1 == s[i]
        b2 == IF i + 1 <= Len(s) THEN s[i + 1] ELSE 0
        b3 == IF i + 2 <= Len(s) THEN s[i + 2] ELSE 0
        n  == b1 * 65536 + b2 * 256 + b3
        c1 == B64Char(n \div 262144)
        c2 == B64Char((n \div 4096) % 64)
        c3 == IF i + 1 <= Len(s) THEN B64Char((n \div 64) % 64) ELSE "="
        c4 == IF i + 2 <= Len(s) THEN B64Char(n % 64) ELSE "="
    IN  << c1, c2, c3, c4 >>

RECURSIVE B64From(_, _)
B64From(s, i) == IF i > Len(s) THEN << >> ELSE B64Group(s, i) \o B64From(s, i + 3)

\* subtle_encoding::base64::encode
Base64Encode(s) == B64From(s, 1)

\* ------------------------------------------------------------ peer check
\* subtle's ct_eq on byte slices: 0 when the lengths differ, else the AND of
\* the byte-wise equalities over every position (no early exit); 1 is "equal".
RECURSIVE CtEqFrom(_, _, _, _)
CtEqFrom(a, b, i, x) ==
    IF i > Len(a) THEN x
    ELSE CtEqFrom(a, b, i + 1, IF a[i] = b[i] THEN x ELSE 0)

CtEq(a, b) == IF Len(a) # Len(b) THEN 0 ELSE CtEqFrom(a, b, 1, 1)

\* The polarity of the check reversed: 1 taken for "not equal".
PeerMismatch_Inverted(expected, actual) == CtEq(expected, actual) = 1

\* nitro.rs line 47: the attempt is refused when ct_eq says "not equal".
PeerMismatch(expected, actual) == CtEq(expected, actual) = 0

\* ------------------------------------------------------------- requests
StartRequests ==
    [ kind : {"Start"},
      peer_id : {None} \cup {Some(p) : p \in PeerIds},
      sealed_consensus_key : Ciphertexts,
      sealed_id_key : {None} \cup Ciphertexts ]

KeygenRequests == [ kind : {"Keygen"}, kms_key_id : KeyIds ]

\* What serde_json::from_slice can make of the host's message.
Requests == StartRequests \cup KeygenRequests \cup {[kind |-> "Undecodable"]}

\* ---------------------------------------------------------------- state
VARIABLES
    pc,            \* where entry is
    request,       \* the decoded request, None before it is read
    result,        \* what entry returned: "none" while it runs
    nsm,           \* the NSM handle: "unopened", "open", "exited"
    logged,        \* the log lines the last step emitted
    hostOut,       \* the framed messages written to the host stream
    key_bytes,     \* Zeroizing buffer of the decrypted consensus key
    id_key_bytes,  \* Zeroizing buffer of the decrypted identity key
    secret,        \* the consensus SigningKey while entry holds it
    id_keypair,    \* the identity SigningKey, None when there is none
    state_holder,  \* the StateHolder while entry holds it
    state,         \* the loaded state while entry holds it
    attempt,       \* what the peer did in the last connection attempt
    conn,          \* the connection get_connection returned, not yet handed on
    session,       \* the Session, None before Session::new
    fails,         \* failed attempts of the current get_connection call
    sleeps,        \* sleeps of the current get_connection call
    serial,        \* serial number of the last connection established
    loopResult,    \* what the last request_loop returned: "none", "Ok", "Err"
    calls,         \* how often the oracles and constructors were called
    keygen         \* the locals of the Keygen arm

startVars == << key_bytes, id_key_bytes, secret, id_keypair, state_holder, state >>
driverVars == << attempt, conn, session, fails, sleeps, serial, loopResult >>
vars == << pc, request, result, nsm, logged, hostOut, startVars, driverVars,
           calls, keygen >>

NoCalls == [ decrypt |-> 0, load |-> 0, session_new |-> 0 ]

NoKeygen == [ keypair |-> None, public |-> None, user_data |-> None,
              encrypt_args |-> << >>, encrypted_secret |-> None,
              att_requests |-> << >>, att_response |-> "none",
              response |-> None, json |-> None ]

\* Counters stop counting at Cap.
Cap == MaxFails + 1
Bump(n) == Min(n + 1, Cap)
Called(what) == [calls EXCEPT ![what] = Bump(calls[what])]

Init ==
    /\ pc = "read"
    /\ request = None
    /\ result = "none"
    /\ nsm = "unopened"
    /\ logged = << >>
    /\ hostOut = << >>
    /\ key_bytes = None
    /\ id_key_bytes = None
    /\ secret = None
    /\ id_keypair = None
    /\ state_holder = None
    /\ state = None
    /\ attempt = None
    /\ conn = None
    /\ session = None
    /\ fails = 0
    /\ sleeps = 0
    /\ serial = 0
    /\ loopResult = "none"
    /\ calls = NoCalls
    /\ keygen = NoKeygen

\* --------------------------------------------------------- secret buffers
\* Zeroizing::new(bytes): the buffer and how often it has been scrubbed.
Zeroizing(bytes) == [ data |-> bytes, scrubs |-> 0 ]

\* A plain Vec in place of Zeroizing: dropping it scrubs nothing.
Drop_PlainVec(buf) == buf

\* Zeroizing's drop: the buffer is zeroized when its binding goes out of scope.
Drop(buf) ==
    IF buf = None THEN None
    ELSE [ data |-> Zeroed(buf.data), scrubs |-> buf.scrubs + 1 ]

\* entry returns: `?` on an Err.
Return(r) ==
    /\ pc' = "returned"
    /\ result' = r

\* ------------------------------------------------------------ entry: read
\* A message that does not decode treated as a fatal error.
Dispatch_DecodeFatal(r) ==
    IF r.kind = "Start"
    THEN [pc |-> "decrypt_consensus", logs |-> << >>, result |-> "none"]
    ELSE IF r.kind = "Keygen"
    THEN [pc |-> "keygen_new", logs |-> << >>, result |-> "none"]
    ELSE [pc |-> "returned", logs |-> << >>, result |-> "Err_serialization"]

\* nitro.rs 105-106, 160, 211-213: the match on the decoded message. A
\* message that does not decode is logged and entry goes on to nsm_exit.
Dispatch(r) ==
    IF r.kind = "Start"
    THEN [pc |-> "decrypt_consensus", logs |-> << >>, result |-> "none"]
    ELSE IF r.kind = "Keygen"
    THEN [pc |-> "keygen_new", logs |-> << >>, result |-> "none"]
    ELSE [pc |-> "nsm_exit", logs |-> << "config error" >>, result |-> "none"]

\* nitro.rs 102-105: nsm_init, read one framed message, decode it.
ReadRequest ==
    /\ pc = "read"
    /\ nsm' = "open"
    /\ \/ \* read_u16_payload fails: `?`
          /\ Return("Err_io")
          /\ UNCHANGED << request, logged >>
       \/ \E r \in Requests :
             /\ request' = r
             /\ pc' = Dispatch(r).pc
             /\ logged' = Dispatch(r).logs
             /\ result' = Dispatch(r).result
    /\ UNCHANGED << hostOut, startVars, driverVars, calls, keygen >>

\* ----------------------------------------------------------- entry: Start
\* The decryption tried again when the oracle refuses.
DecryptConsensusKey_Retry ==
    /\ pc = "decrypt_consensus"
    /\ calls' = Called("decrypt")
    /\ logged' = << >>
    /\ \/ UNCHANGED << pc, result, key_bytes >>
       \/ /\ key_bytes' = Zeroizing(Unseal(request.sealed_consensus_key))
          /\ pc' = "consensus_key"
          /\ UNCHANGED result
    /\ UNCHANGED << request, nsm, hostOut, id_key_bytes, secret, id_keypair,
                    state_holder, state, driverVars, keygen >>

\* nitro.rs 107-116: kms_decrypt of the sealed consensus key.
DecryptConsensusKey ==
    /\ pc = "decrypt_consensus"
    /\ calls' = Called("decrypt")
    /\ logged' = << >>
    /\ \/ \* the oracle refuses: map_err(access_error)?
          /\ Return("Err_access")
          /\ UNCHANGED key_bytes
       \/ /\ key_bytes' = Zeroizing(Unseal(request.sealed_consensus_key))
          /\ pc' = "consensus_key"
          /\ UNCHANGED result
    /\ UNCHANGED << request, nsm, hostOut, id_key_bytes, secret, id_keypair,
                    state_holder, state, driverVars, keygen >>

\* nitro.rs 117-118: SigningKey::try_from(key_bytes); on Err entry returns and
\* key_bytes is dropped.
MakeConsensusKey ==
    /\ pc = "consensus_key"
    /\ logged' = << >>
    /\ LET k == SigningKeyTryFrom(key_bytes.data) IN
         IF k # None
         THEN /\ secret' = k
              /\ pc' = IF request.sealed_id_key # None THEN "decrypt_id"
                       ELSE "state_holder"
              /\ UNCHANGED << result, key_bytes >>
         ELSE /\ Return("Err_invalid_key")
              /\ key_bytes' = Drop(key_bytes)
              /\ UNCHANGED secret
    /\ UNCHANGED << request, nsm, hostOut, id_key_bytes, id_keypair,
                    state_holder, state, driverVars, calls, keygen >>

\* nitro.rs 119-129: kms_decrypt of the sealed identity key, when there is one.
DecryptIdKey ==
    /\ pc = "decrypt_id"
    /\ calls' = Called("decrypt")
    /\ logged' = << >>
    /\ \/ /\ Return("Err_access")
          /\ key_bytes' = Drop(key_bytes)
          /\ UNCHANGED id_key_bytes
       \/ /\ id_key_bytes' = Zeroizing(Unseal(request.sealed_id_key))
          /\ pc' = "id_key"
          /\ UNCHANGED << result, key_bytes >>
    /\ UNCHANGED << request, nsm, hostOut, secret, id_keypair,
                    state_holder, state, driverVars, keygen >>

\* nitro.rs 130-135: SigningKey::try_from(id_key_bytes); id_key_bytes goes out
\* of scope at the end of the `if let` block, or with key_bytes on the Err.
MakeIdKey ==
    /\ pc = "id_key"
    /\ logged' = << >>
    /\ id_key_bytes' = Drop(id_key_bytes)
    /\ LET k == SigningKeyTryFrom(id_key_bytes.data) IN
         IF k # None
         THEN /\ id_keypair' = k
              /\ pc' = "state_holder"
              /\ UNCHANGED << result, key_bytes >>
         ELSE /\ Return("Err_invalid_key")
              /\ key_bytes' = Drop(key_bytes)
              /\ UNCHANGED id_keypair
    /\ UNCHANGED << request, nsm, hostOut, secret,
                    state_holder, state, driverVars, calls, keygen >>

\* nitro.rs 136-137: StateHolder::new opens the connection to the state store.
NewStateHolder ==
    /\ pc = "state_holder"
    /\ logged' = << >>
    /\ \/ /\ Return("Err_io")
          /\ key_bytes' = Drop(key_bytes)
          /\ UNCHANGED state_holder
       \/ /\ state_holder' = [open |-> TRUE]
          /\ pc' = "load_state"
          /\ UNCHANGED << result, key_bytes >>
    /\ UNCHANGED << request, nsm, hostOut, id_key_bytes, secret, id_keypair,
                    state, driverVars, calls, keygen >>

\* What the state store can hold when the session starts.
LoadedStates == { [height |-> h] : h \in 0..(MaxHeight - 1) }

\* nitro.rs 138-140: load_state; then entry calls get_connection (141).
LoadState ==
    /\ pc = "load_state"
    /\ calls' = Called("load")
    /\ logged' = << >>
    /\ \/ /\ Return("Err_io")
          /\ key_bytes' = Drop(key_bytes)
          /\ UNCHANGED state
       \/ \E st \in LoadedStates :
             /\ state' = st
             /\ pc' = "connect"
             /\ UNCHANGED << result, key_bytes >>
    /\ UNCHANGED << request, nsm, hostOut, id_key_bytes, secret, id_keypair,
                    state_holder, driverVars, keygen >>

\* ------------------------------------------------- connection establishment
Failed(logs) == [ ok |-> FALSE, conn |-> None, logs |-> logs ]
Connected(c, logs) == [ ok |-> TRUE, conn |-> c, logs |-> logs ]

\* What the validator's end can do in one attempt: the socket does not
\* connect; it connects and the handshake fails; the handshake succeeds and
\* the peer id derived from the remote public key is `peer`.
PeerBehaviours ==
    { [ sock |-> FALSE, hs |-> FALSE, peer |-> None ],
      [ sock |-> TRUE, hs |-> FALSE, peer |-> None ] }
    \cup { [ sock |-> TRUE, hs |-> TRUE, peer |-> Some(a) ] : a \in PeerIds }

\* The unverified peer never reported.
UnverifiedWarning_Never(expected) == << >>

\* nitro.rs 57-63: warn!("unverified validator peer ID! ...") when no
\* expected peer id is configured.
UnverifiedWarning(expected) ==
    IF expected = None THEN << "unverified validator peer ID" >> ELSE << >>

\* nitro.rs 29-66: connect, handshake, check of the peer id.
GetSecretConnection(expected, b) ==
    IF ~b.sock THEN Failed(<< >>)
    ELSE IF ~b.hs THEN Failed(<< "KMS node ID", "secret connection failed" >>)
    ELSE IF expected # None /\ PeerMismatch(expected.some, b.peer.some)
    THEN Failed(<< "KMS node ID", "validator peer ID mismatch" >>)
    ELSE Connected([ kind |-> "Secure", peer |-> b.peer,
                     verified |-> expected # None ],
                   << "KMS node ID", "connected to validator successfully" >>
                   \o UnverifiedWarning(expected))

\* nitro.rs 77-89: no identity key, so no handshake.
GetPlainConnection(b) ==
    IF b.sock
    THEN Connected([ kind |-> "Plain", peer |-> None, verified |-> FALSE ],
                   << "connected to validator successfully" >>)
    ELSE Failed(<< "vsock failed to connect to validator" >>)

\* The handshake made whether or not there is an identity key.
Attempt_AlwaysSecure(ikp, expected, b) == GetSecretConnection(expected, b)

\* nitro.rs 74-90: one attempt of get_connection's loop.
Attempt(ikp, expected, b) ==
    IF ikp # None THEN GetSecretConnection(expected, b)
    ELSE GetPlainConnection(b)

NextSerial(n) == (n % ConnSerials) + 1

\* The failure of an attempt passed over without the error line.
FailureLog_Silent(logs) == logs

\* nitro.rs 91-92: error!("tendermint connection error {:?}", e) after
\* whatever the failed attempt itself logged.
FailureLog(logs) == logs \o << "tendermint connection error" >>

\* The loop repeating at once, without the sleep.
AfterFailedAttempt_NoSleep == "connect"

\* nitro.rs 91-93: where get_connection goes after an attempt that failed.
AfterFailedAttempt == "sleep"

\* nitro.rs 73-96: one iteration of get_connection's loop up to the sleep.
ConnectAttempt ==
    /\ pc = "connect"
    /\ \E b \in PeerBehaviours :
         LET r == Attempt(id_keypair, request.peer_id, b) IN
           /\ attempt' = b
           /\ IF r.ok
              THEN
                /\ conn' = [ kind |-> r.conn.kind, peer |-> r.conn.peer,
                             verified |-> r.conn.verified,
                             serial |-> NextSerial(serial) ]
                /\ serial' = NextSerial(serial)
                /\ logged' = r.logs
                /\ pc' = "have_conn"
                /\ UNCHANGED fails
              ELSE
                /\ logged' = FailureLog(r.logs)
                /\ fails' = Bump(fails)
                /\ pc' = AfterFailedAttempt
                /\ UNCHANGED << conn, serial >>
    /\ UNCHANGED << request, result, nsm, hostOut, startVars, session, sleeps,
                    loopResult, calls, keygen >>

\* nitro.rs 93: thread::sleep(Duration::new(1, 0)), then the loop repeats.
Sleep ==
    /\ pc = "sleep"
    /\ sleeps' = Bump(sleeps)
    /\ logged' = << >>
    /\ pc' = "connect"
    /\ UNCHANGED << request, result, nsm, hostOut, startVars, attempt, conn,
                    session, fails, serial, loopResult, calls, keygen >>

\* ---------------------------------------------------------- session driver
\* Session::new takes the connection, the consensus key, the loaded state and
\* the state holder (all moved into the session).
SessionNew(c, key, st, holder) ==
    [ conn |-> c, key |-> key, state |-> st, holder |-> holder ]

\* Session::reset_connection replaces the session's connection; the rest of
\* the session persists across reconnects.
ResetConnection(s, c) == [s EXCEPT !.conn = c]

\* nitro.rs 141-151: the first connection goes into Session::new.
NewSession ==
    /\ pc = "have_conn"
    /\ session = None
    /\ session' = SessionNew(conn, secret, state, state_holder)
    /\ calls' = Called("session_new")
    /\ conn' = None
    /\ secret' = None
    /\ state' = None
    /\ state_holder' = None
    /\ logged' = << >>
    /\ pc' = "request_loop"
    /\ UNCHANGED << request, result, nsm, hostOut, key_bytes, id_key_bytes,
                    id_keypair, attempt, fails, sleeps, serial, loopResult,
                    keygen >>

\* nitro.rs 156-157: a later connection goes into session.reset_connection.
Reconnected ==
    /\ pc = "have_conn"
    /\ session # None
    /\ session' = ResetConnection(session, conn)
    /\ conn' = None
    /\ logged' = << >>
    /\ pc' = "request_loop"
    /\ UNCHANGED << request, result, nsm, hostOut, startVars, attempt, fails,
                    sleeps, serial, loopResult, calls, keygen >>

\* Session::request_loop serves the validator's requests, which may advance
\* the session's state, until it returns with or without an error.
RequestLoopOutcomes(s) ==
    { [ session |-> [s EXCEPT !.state = [height |-> h]], result |-> r ] :
        h \in s.state.height..MaxHeight, r \in {"Ok", "Err"} }

\* nitro.rs 153: session.request_loop().
RequestLoop ==
    /\ pc = "request_loop"
    /\ \E o \in RequestLoopOutcomes(session) :
         /\ session' = o.session
         /\ loopResult' = o.result
    /\ logged' = << >>
    /\ pc' = "loop_returned"
    /\ UNCHANGED << request, result, nsm, hostOut, startVars, attempt, conn,
                    fails, sleeps, serial, calls, keygen >>

\* The reconnect made only when request_loop reported an error.
AfterRequestLoop_ReconnectOnErr(r) ==
    IF r = "Err"
    THEN [ logs |-> << "request error" >>, pc |-> "connect", result |-> "none" ]
    ELSE [ logs |-> << >>, pc |-> "request_loop", result |-> "none" ]

\* The state loaded again before every reconnect.
AfterRequestLoop_Reload(r) ==
    [ logs |-> IF r = "Err" THEN << "request error" >> ELSE << >>,
      pc |-> "load_state", result |-> "none" ]

\* An Err of request_loop swallowed without a log line.
AfterRequestLoop_Silent(r) ==
    [ logs |-> << >>, pc |-> "connect", result |-> "none" ]

\* An Err of request_loop propagated with `?` instead of logged.
AfterRequestLoop_Propagate(r) ==
    IF r = "Err" THEN [ logs |-> << >>, pc |-> "returned", result |-> "Err_io" ]
    ELSE [ logs |-> << >>, pc |-> "connect", result |-> "none" ]

\* nitro.rs 153-156: what entry does with request_loop's result: an Err is
\* logged, and in both cases the loop body goes on to get_connection.
AfterRequestLoop(r) ==
    [ logs |-> IF r = "Err" THEN << "request error" >> ELSE << >>,
      pc |-> "connect", result |-> "none" ]

LoopReturned ==
    /\ pc = "loop_returned"
    /\ LET a == AfterRequestLoop(loopResult) IN
         /\ logged' = a.logs
         /\ pc' = a.pc
         /\ result' = a.result
    /\ fails' = 0
    /\ sleeps' = 0
    /\ UNCHANGED << request, nsm, hostOut, startVars, attempt, conn, session,
                    serial, loopResult, calls, keygen >>

\* ---------------------------------------------------------- entry: Keygen
\* nitro.rs 170-173: format!("{{\"pubkey\":\"{}\",\"key_id\":\"{}\"}}", ..).
FormatClaim(pubkeyb64, keyidb64) ==
    << "{", "\"pubkey\":", "\"" >> \o pubkeyb64 \o
    << "\"", ",", "\"key_id\":", "\"" >> \o keyidb64 \o << "\"", "}" >>

\* The claim with its two fields filled the wrong way round.
UserData_Swapped(public, kms_key_id) ==
    FormatClaim(Base64Encode(kms_key_id), Base64Encode(public))

\* nitro.rs 164-174: the user data of the attestation request. (The base64
\* output is ASCII, so String::from_utf8 has no failing case.)
UserData(public, kms_key_id) ==
    FormatClaim(Base64Encode(public), Base64Encode(kms_key_id))

\* The keypair scrubbed before it is handed to the sealing oracle.
EncryptArgs_Scrubbed(kms_key_id, keypair) ==
    [ key_id |-> kms_key_id, plaintext |-> Zeroed(keypair.bytes) ]

\* nitro.rs 176-181: what is handed to the sealing oracle.
EncryptArgs(kms_key_id, keypair) ==
    [ key_id |-> kms_key_id, plaintext |-> keypair.bytes ]

\* nitro.rs 184-193: Request::Attestation.
AttestationRequest(user_data) ==
    [ user_data |-> user_data, nonce |-> None, public_key |-> None ]

\* nitro.rs 196-200: the success response.
KeygenResponse(encrypted_secret, public, document) ==
    [ kind |-> "Ok", encrypted_secret |-> encrypted_secret,
      public_key |-> public, attestation_doc |-> document ]

KeygenFailure(message) == [ kind |-> "Err", message |-> message ]

\* Every answer of the NSM device taken for an attestation document.
AttestationResult_AnyKind(att, encrypted_secret, public) ==
    KeygenResponse(encrypted_secret, public, att.document)

\* nitro.rs 195-202: the match on what the NSM device answered.
AttestationResult(att, encrypted_secret, public) ==
    IF att.kind = "Attestation"
    THEN KeygenResponse(encrypted_secret, public, att.document)
    ELSE KeygenFailure("failed to obtain an attestation document")

\* A failure of kms_encrypt treated as in the Start arm: map_err(access_error)?
AfterEncrypt_Fatal(ok) ==
    IF ok THEN [ pc |-> "attest", result |-> "none" ]
    ELSE [ pc |-> "returned", result |-> "Err_access" ]

\* nitro.rs 183 and 204: where the arm goes with kms_encrypt's result.
AfterEncrypt(ok) ==
    [ pc |-> IF ok THEN "attest" ELSE "zeroize", result |-> "none" ]

\* keypair.zeroize()
ZeroizeKeypair(kp) == [ bytes |-> Zeroed(kp.bytes), scrubs |-> kp.scrubs + 1 ]

\* nitro.rs 161-174: a fresh keypair from OsRng, its public key, the claim.
KeygenNew ==
    /\ pc = "keygen_new"
    /\ \E seed \in Seeds :
         keygen' = [keygen EXCEPT
                      !.keypair = [ bytes |-> seed, scrubs |-> 0 ],
                      !.public = Some(VerificationKey(seed)),
                      !.user_data =
                          Some(UserData(VerificationKey(seed), request.kms_key_id))]
    /\ logged' = << >>
    /\ pc' = "kms_encrypt"
    /\ UNCHANGED << request, result, nsm, hostOut, startVars, driverVars, calls >>

\* nitro.rs 175-183 and 204: kms_encrypt of the raw key; an Err becomes the
\* failure response.
KmsEncrypt ==
    /\ pc = "kms_encrypt"
    /\ logged' = << >>
    /\ LET args == EncryptArgs(request.kms_key_id, keygen.keypair) IN
         \/ /\ keygen' = [keygen EXCEPT
                            !.encrypt_args = Append(@, args),
                            !.encrypted_secret =
                                Some(Seal(args.key_id, args.plaintext))]
            /\ pc' = AfterEncrypt(TRUE).pc
            /\ result' = AfterEncrypt(TRUE).result
         \/ /\ keygen' = [keygen EXCEPT
                            !.encrypt_args = Append(@, args),
                            !.response = KeygenFailure("kms_encrypt error")]
            /\ pc' = AfterEncrypt(FALSE).pc
            /\ result' = AfterEncrypt(FALSE).result
    /\ UNCHANGED << request, nsm, hostOut, startVars, driverVars, calls >>

\* nitro.rs 184-202: nsm_process_request; anything but an attestation
\* document becomes the failure response.
Attest ==
    /\ pc = "attest"
    /\ logged' = << >>
    /\ LET req == AttestationRequest(keygen.user_data) IN
         \E att \in { [ kind |-> "Attestation", document |-> [over |-> req] ],
                      [ kind |-> "Error", document |-> None ] } :
            keygen' = [keygen EXCEPT
                         !.att_requests = Append(@, req),
                         !.att_response = att.kind,
                         !.response =
                             AttestationResult(att, keygen.encrypted_secret.some,
                                               keygen.public.some)]
    /\ pc' = "zeroize"
    /\ UNCHANGED << request, result, nsm, hostOut, startVars, driverVars, calls >>

\* nitro.rs 206: keypair.zeroize().
ZeroizeKey ==
    /\ pc = "zeroize"
    /\ keygen' = [keygen EXCEPT !.keypair = ZeroizeKeypair(@)]
    /\ logged' = << >>
    /\ pc' = "serialize"
    /\ UNCHANGED << request, result, nsm, hostOut, startVars, driverVars, calls >>

\* nitro.rs 207: serde_json::to_string(&response). The response is a Result
\* of byte vectors and strings, which serde_json always serializes.
Serialize ==
    /\ pc = "serialize"
    /\ keygen' = [keygen EXCEPT !.json = [json_of |-> keygen.response]]
    /\ logged' = << >>
    /\ pc' = "write"
    /\ UNCHANGED << request, result, nsm, hostOut, startVars, driverVars, calls >>

\* write_u16_payload: one frame, the length prefix and the payload.
Written(out, json) == Append(out, json)

\* nitro.rs 208-210: write_u16_payload; an io error returns from entry.
WriteResponse ==
    /\ pc = "write"
    /\ logged' = << >>
    /\ \/ /\ hostOut' = Written(hostOut, keygen.json)
          /\ pc' = "nsm_exit"
          /\ UNCHANGED result
       \/ /\ Return("Err_io")
          /\ UNCHANGED hostOut
    /\ UNCHANGED << request, nsm, startVars, driverVars, calls, keygen >>

\* nitro.rs 215-217: nsm_exit(nsm_fd); Ok(()).
NsmExit ==
    /\ pc = "nsm_exit"
    /\ nsm' = "exited"
    /\ logged' = << >>
    /\ Return("Ok")
    /\ UNCHANGED << request, hostOut, startVars, driverVars, calls, keygen >>

\* ------------------------------------------------------------------ system
Next ==
    \/ ReadRequest
    \/ DecryptConsensusKey
    \/ MakeConsensusKey
    \/ DecryptIdKey
    \/ MakeIdKey
    \/ NewStateHolder
    \/ LoadState
    \/ ConnectAttempt
    \/ Sleep
    \/ NewSession
    \/ Reconnected
    \/ RequestLoop
    \/ LoopReturned
    \/ KeygenNew
    \/ KmsEncrypt
    \/ Attest
    \/ ZeroizeKey
    \/ Serialize
    \/ WriteResponse
    \/ NsmExit

Spec == Init /\ [][Next]_vars

\* ------------------------------------------------------------- round trip
\* nitro.rs 101-106: a later invocation of entry, given a Start request whose
\* sealed consensus key is the ciphertext that the Keygen invocation before it
\* wrote to the host. The host keeps what was written to it; the enclave
\* starts afresh.
StartWithGeneratedKey ==
    /\ pc = "returned" /\ result = "Ok"
    /\ request # None /\ request.kind = "Keygen"
    /\ Len(hostOut) = 1 /\ hostOut[1].json_of.kind = "Ok"
    /\ LET r == [ kind |-> "Start", peer_id |-> None,
                  sealed_consensus_key |-> hostOut[1].json_of.encrypted_secret,
                  sealed_id_key |-> None ] IN
         /\ request' = r
         /\ pc' = Dispatch(r).pc
         /\ logged' = Dispatch(r).logs
         /\ result' = Dispatch(r).result
    /\ nsm' = "open"
    /\ UNCHANGED << hostOut, startVars, driverVars, calls, keygen >>

RoundTripNext == Next \/ StartWithGeneratedKey

RoundTripSpec == Init /\ [][RoundTripNext]_vars

\* ------------------------------------------------------------------ claims
Range(f) == { f[i] : i \in DOMAIN f }

Connecting == {"connect", "sleep", "have_conn"}
Running == {"request_loop", "loop_returned"}

DriverPcs == Connecting \cup Running

ConsensusKey == [seed |-> Unseal(request.sealed_consensus_key)]

\* C1: when channel establishment fails N times and then succeeds,
\* get_connection returns one connection (the one just established), it has
\* slept exactly N times, once after each failed attempt and never after the
\* successful one, the driver goes on to Running with that connection, and
\* the signing key and the loaded state are what they were before the first
\* attempt: the first Running gets exactly them.
C1_ReconnectSleepsOncePerFailure ==
    /\ [](/\ pc \in {"connect", "have_conn"} \cup Running => sleeps = fails
          /\ pc = "sleep" => fails = Bump(sleeps)
          /\ pc = "have_conn" => conn # None /\ conn.serial = serial)
    /\ [][/\ pc \in {"connect", "sleep"} =>
               /\ pc' \in Connecting
               /\ UNCHANGED << secret, state, state_holder, session, id_keypair >>
          /\ pc = "have_conn" =>
               /\ pc' = "request_loop"
               /\ session'.conn = conn
               /\ session = None => session'.key = secret /\ session'.state = state
               /\ session # None =>
                    session'.key = session.key /\ session'.state = session.state
          /\ pc = "request_loop" => pc' = "loop_returned"]_vars

\* C1's case: two failures in a row, two sleeps, then a connection.
C1_Witness ==
    pc = "have_conn" /\ fails = 2 /\ sleeps = 2 /\ session = None /\ secret # None

\* C2: the session driver has no terminal state: from the first connection
\* attempt on, entry has not returned, the driver is Connecting or Running,
\* every step leads to Connecting or Running again, and a step is always
\* possible.
C2_DriverNeverStops ==
    /\ [](pc \in DriverPcs => result = "none" /\ ENABLED Next)
    /\ [][(pc \in DriverPcs) => (pc' \in DriverPcs)]_vars

\* C2's case: after a request_loop error and repeated connection failures,
\* among them a refused peer, the driver is still retrying.
C2_Witness ==
    /\ pc = "sleep" /\ session # None /\ loopResult = "Err" /\ fails = Cap
    /\ "validator peer ID mismatch" \in Range(logged)

\* C3: an error of request_loop is logged and leads to Connecting and back to
\* Running with the same session: Session::new is called once, the reconnect
\* replaces the session's connection by the newly established one and leaves
\* the consensus key, the session's state and the state holder as they were.
C3_ReconnectKeepsSession ==
    /\ [](/\ calls.session_new <= 1
          /\ session # None =>
               /\ calls.session_new = 1
               /\ session.key = ConsensusKey
               /\ session.holder = [open |-> TRUE]
          /\ pc = "request_loop" => session.conn.serial = serial)
    /\ [][/\ pc = "loop_returned" =>
               /\ loopResult = "Err" => "request error" \in Range(logged')
               /\ pc' = "connect"
          /\ session # None /\ pc # "request_loop" =>
               /\ session'.key = session.key
               /\ session'.state = session.state
               /\ session'.holder = session.holder
          /\ session # None /\ pc = "have_conn" =>
               /\ session'.conn = conn
               /\ session'.conn # session.conn
          /\ session # None /\ pc # "have_conn" => session'.conn = session.conn
         ]_vars

\* C3's case: Running again after a request_loop error, on a second
\* connection, with the state the session had reached.
C3_Witness ==
    /\ pc = "request_loop" /\ loopResult = "Err"
    /\ session.state.height = MaxHeight /\ session.conn.serial = 2

\* Two peer ids differ in at least one byte.
DifferInSomeByte(a, b) == \E i \in 1..IdLen : a[i] # b[i]

\* C4: with an identity key and an expected peer id, an attempt yields a
\* connection exactly when the socket connects, the handshake succeeds and the
\* derived id equals the expected one; when the two ids differ in a byte the
\* attempt fails with no connection, and get_connection sleeps and retries.
C4_PeerIdentityChecked ==
    /\ [](pc \in {"have_conn", "sleep"} /\ id_keypair # None
            /\ request.peer_id # None =>
            /\ pc = "have_conn" <=>
                 attempt.sock /\ attempt.hs /\ attempt.peer = request.peer_id
            /\ pc = "have_conn" =>
                 conn.kind = "Secure" /\ conn.peer = request.peer_id
            /\ (attempt.hs /\ DifferInSomeByte(request.peer_id.some,
                                               attempt.peer.some)) =>
                 /\ pc = "sleep" /\ conn = None /\ result = "none"
                 /\ "validator peer ID mismatch" \in Range(logged))
    /\ [][pc = "sleep" => pc' = "connect" /\ result' = "none"]_vars

\* C4's case: the handshake succeeded with a peer whose id differs from the
\* expected one in its last byte only, and the attempt was refused.
C4_Witness ==
    /\ pc = "sleep" /\ id_keypair # None /\ request.peer_id # None
    /\ attempt.hs
    /\ attempt.peer.some[1] = request.peer_id.some[1]
    /\ attempt.peer.some[IdLen] # request.peer_id.some[IdLen]

\* A plaintext buffer that has been overwritten with zero, once.
Scrubbed(buf) == buf.scrubs = 1 /\ buf.data = Zeroed(buf.data)

IsStart == request # None /\ request.kind = "Start"
IsKeygen == request # None /\ request.kind = "Keygen"

\* C5: in the Start flow each decrypted plaintext buffer has been overwritten
\* with zero in every state after the SigningKey was constructed from it: once
\* the consensus key exists its buffer is scrubbed, and once the identity key
\* exists its buffer is scrubbed.
C5_PlaintextScrubbedOnceKeyBuilt ==
    /\ (secret # None \/ session # None) => Scrubbed(key_bytes)
    /\ id_keypair # None => Scrubbed(id_key_bytes)

\* C6: when the Start flow returns an error, every plaintext buffer obtained
\* from the sealing oracle so far has been scrubbed exactly once.
C6_ErrorExitsScrubOnce ==
    (IsStart /\ pc = "returned") =>
        /\ result \in {"Err_access", "Err_invalid_key", "Err_io"}
        /\ key_bytes # None => Scrubbed(key_bytes)
        /\ id_key_bytes # None => Scrubbed(id_key_bytes)
        /\ calls.decrypt >= 1 /\ result # "Err_access" => key_bytes # None

\* C6's case: the state could not be loaded after both keys were unsealed.
C6_Witness ==
    /\ IsStart /\ pc = "returned" /\ result = "Err_io" /\ calls.load = 1
    /\ key_bytes # None /\ key_bytes.scrubs = 1
    /\ id_key_bytes # None /\ id_key_bytes.scrubs = 1

SealingSucceeded == keygen.encrypted_secret # None
AttestationSucceeded == keygen.att_response = "Attestation"

\* C7 as stated: every Keygen execution returns normally having written
\* exactly one Response envelope.
C7_AlwaysOneResponseAndOk ==
    (IsKeygen /\ pc = "returned") => result = "Ok" /\ Len(hostOut) = 1

\* C7, amended: a Keygen execution makes one write of a Response envelope, a
\* success response exactly when sealing and attestation both succeeded; if
\* the write succeeds exactly one envelope is on the host stream and entry
\* returns Ok, if it fails entry returns an io error and nothing is written;
\* never more than one envelope is written.
C7_OneResponseUnlessWriteFails ==
    /\ Len(hostOut) <= 1
    /\ hostOut # << >> => IsKeygen /\ pc \in {"nsm_exit", "returned"}
    /\ (IsKeygen /\ pc \in {"nsm_exit", "returned"}) =>
         /\ keygen.response.kind = "Ok" <=>
                (SealingSucceeded /\ AttestationSucceeded)
         /\ \/ /\ hostOut = << [json_of |-> keygen.response] >>
               /\ pc = "returned" => result = "Ok"
            \/ /\ hostOut = << >>
               /\ pc = "returned" /\ result = "Err_io"

\* C7's case: the attestation failed and the failure response was written.
C7_Witness ==
    /\ IsKeygen /\ pc = "returned" /\ result = "Ok"
    /\ SealingSucceeded /\ ~AttestationSucceeded
    /\ Len(hostOut) = 1 /\ hostOut[1].json_of.kind = "Err"

KeypairScrubbed ==
    /\ keygen.keypair # None
    /\ keygen.keypair.scrubs >= 1
    /\ keygen.keypair.bytes = Zeroed(keygen.keypair.bytes)

\* C8: in a Keygen flow the raw key is zeroized immediately once the sealing
\* call has succeeded (the step that follows a successful seal is the scrub),
\* it is zeroized as well when sealing or attestation fails, the scrub comes
\* before any byte is written to the host, and no exit leaves it unscrubbed.
C8_KeyScrubbedRightAfterSealing ==
    /\ [](IsKeygen =>
            /\ pc \in {"serialize", "write", "nsm_exit", "returned"} =>
                   KeypairScrubbed
            /\ hostOut # << >> => KeypairScrubbed)
    /\ [][(SealingSucceeded /\ ~KeypairScrubbed) => KeypairScrubbed']_vars

\* C9 as stated: a failed sealing or attestation ends with a failure Response
\* written and entry returning Ok; the attestation oracle is called at most
\* once and only after sealing succeeded.
C9_FailuresWrittenAndOk ==
    /\ Len(keygen.att_requests) <= 1
    /\ keygen.att_requests # << >> => SealingSucceeded
    /\ (IsKeygen /\ pc = "returned"
          /\ (~SealingSucceeded \/ ~AttestationSucceeded)) =>
         /\ result = "Ok"
         /\ keygen.response.kind = "Err"
         /\ hostOut = << [json_of |-> keygen.response] >>

\* C9, amended: a failed sealing or attestation is reported as a value: if
\* sealing fails no attestation is requested and the response is a failure
\* with a message; if sealing succeeds and the device answers anything but an
\* attestation document the response is a failure without the ciphertext; in
\* both cases entry returns Ok with that response written, unless the write to
\* the host itself fails (an io error). The attestation oracle is called at
\* most once and only after sealing succeeded.
C9_FailuresAreValues ==
    /\ Len(keygen.att_requests) <= 1
    /\ keygen.att_requests # << >> => SealingSucceeded
    /\ (IsKeygen /\ keygen.response # None
          /\ (~SealingSucceeded \/ ~AttestationSucceeded)) =>
         /\ keygen.response.kind = "Err"
         /\ keygen.response.message # ""
         /\ "encrypted_secret" \notin DOMAIN keygen.response
         /\ ~SealingSucceeded => keygen.att_requests = << >>
    /\ (IsKeygen /\ pc = "returned"
          /\ (~SealingSucceeded \/ ~AttestationSucceeded)) =>
         \/ result = "Ok" /\ hostOut = << [json_of |-> keygen.response] >>
         \/ result = "Err_io" /\ hostOut = << >>

\* C9's case: the sealing oracle refused, and entry returned Ok with the
\* failure written.
C9_Witness ==
    /\ IsKeygen /\ pc = "returned" /\ result = "Ok" /\ ~SealingSucceeded
    /\ Len(keygen.encrypt_args) = 1 /\ keygen.att_requests = << >>
    /\ hostOut = << [json_of |-> KeygenFailure("kms_encrypt error")] >>

\* C10: in a successful Keygen the attestation request has no nonce and its
\* user data is the claim whose pubkey field is the base64 of the response's
\* public_key and whose key_id field is the base64 of the kms_key_id given to
\* the sealing oracle; the returned ciphertext is the seal, under that key id,
\* of the private key that public key belongs to.
C10_ClaimNamesKeyAndKeyId ==
    (IsKeygen /\ keygen.response # None /\ keygen.response.kind = "Ok") =>
        /\ Len(keygen.att_requests) = 1 /\ Len(keygen.encrypt_args) = 1
        /\ LET resp == keygen.response
               req  == keygen.att_requests[1]
               args == keygen.encrypt_args[1]
           IN  /\ req.nonce = None
               /\ req.user_data =
                     Some(FormatClaim(Base64Encode(resp.public_key),
                                      Base64Encode(args.key_id)))
               /\ args.key_id = request.kms_key_id
               /\ resp.encrypted_secret = Seal(args.key_id, args.plaintext)
               /\ VerificationKey(Unseal(resp.encrypted_secret)) = resp.public_key
               /\ resp.attestation_doc = [over |-> req]

\* C10's case: Keygen with kms_key_id "abc" succeeded and the response was
\* written; the claim ends with the base64 of "abc".
C10_Witness ==
    /\ IsKeygen /\ pc = "returned" /\ result = "Ok"
    /\ request.kms_key_id = << 97, 98, 99 >>
    /\ hostOut # << >> /\ hostOut[1].json_of.kind = "Ok"
    /\ LET ud == keygen.att_requests[1].user_data.some IN
         SubSeq(ud, Len(ud) - 5, Len(ud)) = << "Y", "W", "J", "j", "\"", "}" >>

\* C11: an access error ends the Start flow and is never retried: the sealing
\* oracle's decrypt is called at most once per sealed key, over all later
\* reconnects too, and when a decrypt call fails entry returns an access error
\* with no state connection opened, no state loaded and no validator
\* connection attempted.
C11_AccessErrorsFatalNoRetry ==
    /\ calls.decrypt <= 2
    /\ IsStart =>
         /\ request.sealed_id_key = None => calls.decrypt <= 1
         /\ pc \in DriverPcs =>
              calls.decrypt = IF request.sealed_id_key = None THEN 1 ELSE 2
         /\ (calls.decrypt >= 1 /\ key_bytes = None) =>
              pc = "returned" /\ result = "Err_access"
         /\ (calls.decrypt = 2 /\ id_key_bytes = None) =>
              pc = "returned" /\ result = "Err_access"
    /\ result = "Err_access" =>
         /\ IsStart /\ pc = "returned"
         /\ state_holder = None /\ state = None /\ calls.load = 0
         /\ attempt = None /\ conn = None /\ session = None /\ serial = 0

\* C11's case: the oracle opened the consensus key and refused the identity
\* key.
C11_Witness ==
    /\ IsStart /\ pc = "returned" /\ result = "Err_access"
    /\ calls.decrypt = 2 /\ key_bytes # None /\ id_key_bytes = None

\* Nothing of what follows the unsealing has happened.
NoStartSideEffects ==
    /\ state_holder = None /\ state = None /\ calls.load = 0
    /\ attempt = None /\ conn = None /\ serial = 0
    /\ session = None /\ calls.session_new = 0
    /\ hostOut = << >>

\* C12: when the sealing oracle returns a plaintext whose length is not the
\* key size, for the consensus key or for the identity key, unsealing fails
\* with an invalid-key error and nothing else has happened: no state
\* connection, no load, no connection attempt, no Session, nothing written to
\* the host. Only such a plaintext is refused as an invalid key.
C12_WrongLengthIsInvalidKey ==
    /\ IsStart =>
         /\ (key_bytes # None /\ Len(key_bytes.data) # KeySize
               /\ pc # "consensus_key") =>
              /\ pc = "returned" /\ result = "Err_invalid_key"
              /\ secret = None /\ NoStartSideEffects
         /\ (id_key_bytes # None /\ Len(id_key_bytes.data) # KeySize
               /\ pc # "id_key") =>
              /\ pc = "returned" /\ result = "Err_invalid_key"
              /\ id_keypair = None /\ NoStartSideEffects
    /\ result = "Err_invalid_key" =>
         /\ IsStart
         /\ \/ Len(key_bytes.data) # KeySize
            \/ id_key_bytes # None /\ Len(id_key_bytes.data) # KeySize

\* C12's case: the identity key's plaintext is one byte too long.
C12_Witness ==
    /\ IsStart /\ pc = "returned" /\ result = "Err_invalid_key"
    /\ id_key_bytes # None /\ Len(id_key_bytes.data) = KeySize + 1

\* C13: in a Start execution the state is loaded at most once, after both
\* keys have been unsealed and the state connection opened, before the first
\* connection attempt and before the Session exists, and never again however
\* often the driver reconnects; when the state connection cannot be opened or
\* the load fails, entry returns before any connection attempt.
C13_StateLoadedOnceBeforeConnecting ==
    /\ [](/\ calls.load <= 1
          /\ (attempt # None \/ session # None \/ pc \in DriverPcs) =>
               calls.load = 1 /\ (state # None \/ session # None)
          /\ (IsStart /\ result = "Err_io") =>
               attempt = None /\ conn = None /\ session = None /\ serial = 0)
    /\ [][(calls'.load # calls.load) =>
             /\ pc = "load_state"
             /\ secret # None
             /\ request.sealed_id_key # None => id_keypair # None
             /\ state_holder # None
             /\ attempt = None /\ session = None]_vars

\* C13's case: the session is Running for the second time at least, after a
\* reconnect, and the state has been loaded once.
C13_Witness ==
    /\ pc = "request_loop" /\ loopResult # "none" /\ calls.load = 1
    /\ request.sealed_id_key # None

\* C14: while no connection to the validator has succeeded, entry neither
\* returns nor stops, every failed attempt (an unreachable endpoint above
\* all) logs a connection error before its sleep and is followed by a retry,
\* and no message is sent: request_loop has not been invoked, no Session
\* exists and nothing has been written to the host.
C14_UnreachableValidatorRetriedQuietly ==
    /\ [](IsStart /\ serial = 0 =>
            /\ session = None /\ conn = None /\ calls.session_new = 0
            /\ loopResult = "none" /\ hostOut = << >>
            /\ pc \notin Running \cup {"have_conn"}
            /\ pc \in {"connect", "sleep"} => result = "none" /\ ENABLED Next
            /\ pc = "sleep" =>
                 /\ Len(logged) >= 1
                 /\ logged[Len(logged)] = "tendermint connection error"
                 /\ fails >= 1 /\ fails = Bump(sleeps))
    /\ [][/\ (pc = "connect" /\ ~attempt'.sock) =>
               /\ pc' = "sleep"
               /\ "tendermint connection error" \in Range(logged')
               /\ UNCHANGED << session, conn, serial, hostOut, loopResult >>
          /\ pc = "sleep" => pc' = "connect"]_vars

\* C14's case: the endpoint was unreachable on every attempt so far, more
\* often than the counters count.
C14_Witness ==
    /\ IsStart /\ pc = "sleep" /\ serial = 0 /\ fails = Cap /\ sleeps = Cap
    /\ ~attempt.sock /\ id_keypair # None

IsUndecodable == request # None /\ request.kind = "Undecodable"

\* C15: entry reads one framed message, once, before anything else; when the
\* message does not decode, the error is logged, entry goes to nsm_exit and
\* returns Ok, and no sealing-oracle call, key generation, state store,
\* connection attempt or host write has happened.
C15_UndecodableLoggedAndOk ==
    /\ [](/\ pc = "read" <=> request = None /\ result = "none"
          /\ IsUndecodable =>
               /\ pc \in {"nsm_exit", "returned"}
               /\ calls = NoCalls /\ keygen = NoKeygen
               /\ key_bytes = None /\ id_key_bytes = None
               /\ secret = None /\ id_keypair = None
               /\ NoStartSideEffects
               /\ pc = "nsm_exit" =>
                    /\ "config error" \in Range(logged)
                    /\ result = "none" /\ nsm = "open"
               /\ pc = "returned" => result = "Ok" /\ nsm = "exited")
    /\ [][/\ request' # request => pc = "read" /\ request = None
          /\ pc # "read" => pc' # "read"]_vars

\* C15's case: entry has returned after a message that did not decode.
C15_Witness == IsUndecodable /\ pc = "returned" /\ result = "Ok"

HandshakeLines ==
    { "KMS node ID", "secret connection failed", "validator peer ID mismatch",
      "unverified validator peer ID" }

\* C16: there is an identity keypair exactly when the Start request carried
\* a sealed identity key; without one, an attempt makes no handshake and no
\* comparison of the peer: it yields a Plain channel exactly when the socket
\* connected, whatever the peer would have answered and whether or not an
\* expected peer id is configured.
C16_NoIdentityMeansPlain ==
    /\ pc \in DriverPcs => (id_keypair = None <=> request.sealed_id_key = None)
    /\ (pc \in {"have_conn", "sleep"} /\ id_keypair = None) =>
         /\ pc = "have_conn" <=> attempt.sock
         /\ Range(logged) \cap HandshakeLines = {}
         /\ pc = "have_conn" =>
              /\ conn # None /\ conn.kind = "Plain"
              /\ conn.peer = None /\ ~conn.verified
         /\ pc = "sleep" => conn = None

\* C16's case: a Plain channel although an expected peer id is configured
\* and the peer's handshake would have failed.
C16_Witness ==
    /\ pc = "have_conn" /\ id_keypair = None /\ request.peer_id # None
    /\ attempt.sock /\ ~attempt.hs /\ conn.kind = "Plain"

Count(seq, x) == Cardinality({ i \in DOMAIN seq : seq[i] = x })

Unverified == Count(logged, "unverified validator peer ID")

ErrorLines ==
    { "tendermint connection error", "validator peer ID mismatch",
      "secret connection failed" }

\* C17: with an identity keypair and no expected peer id, an attempt
\* establishes a connection exactly when the handshake succeeded, whatever
\* the peer's id: the channel is Secure, carries that peer, is marked
\* unverified, and the step logs the unverified warning once and no error.
\* With an expected peer id that matches, the channel is verified and the
\* warning is not logged. The warning is logged by no other step.
C17_UnverifiedPeerWarnedOnce ==
    /\ Unverified <= 1
    /\ Unverified = 1 =>
         pc = "have_conn" /\ id_keypair # None /\ request.peer_id = None
    /\ (pc \in {"have_conn", "sleep"} /\ id_keypair # None) =>
         /\ request.peer_id = None =>
              /\ pc = "have_conn" <=> attempt.sock /\ attempt.hs
              /\ pc = "have_conn" =>
                   /\ conn.kind = "Secure" /\ conn.peer = attempt.peer
                   /\ ~conn.verified
                   /\ Unverified = 1
                   /\ Range(logged) \cap ErrorLines = {}
         /\ request.peer_id # None =>
              /\ Unverified = 0
              /\ pc = "have_conn" =>
                   /\ conn.kind = "Secure" /\ conn.verified
                   /\ conn.peer = attempt.peer
                   /\ ~PeerMismatch(request.peer_id.some, attempt.peer.some)

\* C17's case: a connection to a peer nobody expected, after earlier failures.
C17_Witness ==
    /\ pc = "have_conn" /\ id_keypair # None /\ request.peer_id = None
    /\ attempt.hs /\ conn.kind = "Secure" /\ Unverified = 1 /\ fails >= 1

\* A Start invocation that was given what an earlier Keygen invocation wrote.
RoundTripped == IsStart /\ Len(hostOut) = 1

KeygenAnswer == hostOut[1].json_of

\* C18: when Start is given the ciphertext of a Keygen success response and
\* the sealing oracle opens it, building the SigningKey from the plaintext
\* never fails, and the public part of that key is the public_key of the
\* Keygen response.
C18_GeneratedKeyRoundTrips ==
    /\ [](RoundTripped =>
            /\ KeygenAnswer.kind = "Ok"
            /\ request.sealed_consensus_key = KeygenAnswer.encrypted_secret
            /\ result # "Err_invalid_key"
            /\ secret # None =>
                 VerificationKey(secret.seed) = KeygenAnswer.public_key)
    /\ [][(RoundTripped /\ pc = "consensus_key") =>
            /\ secret' # None
            /\ VerificationKey(secret'.seed) = KeygenAnswer.public_key]_vars

\* C18's case: the consensus key has been built from a Keygen ciphertext
\* sealed under the longer key id.
C18_Witness ==
    /\ RoundTripped /\ secret # None /\ pc = "connect"
    /\ KeygenAnswer.encrypted_secret.kid = <<97, 98, 99>>

\* C19: the session driver alternates strictly. request_loop runs on the
\* connection established last and is followed by its return; after the
\* return, with or without an error, get_connection runs; a connection is
\* established only by get_connection and is at once handed to the session,
\* by Session::new the first time and by reset_connection, which replaces a
\* connection that is not the new one, every later time; then request_loop
\* runs again. Outside that hand-over entry holds no connection of its own,
\* and the session holds the one connection established last.
C19_ReconnectRunAlternate ==
    /\ [](/\ calls.session_new <= 1
          /\ session # None <=> pc \in Running \/ loopResult # "none"
          /\ conn # None <=> pc = "have_conn"
          /\ pc = "have_conn" => conn.serial = serial
          /\ (session # None /\ pc # "have_conn") => session.conn.serial = serial
          /\ (session # None /\ pc = "have_conn") => session.conn.serial # serial)
    /\ [][/\ pc = "request_loop" => pc' = "loop_returned"
          /\ pc = "loop_returned" =>
               /\ pc' = "connect"
               /\ UNCHANGED << session, conn, serial >>
          /\ (pc \in {"connect", "sleep"}) =>
               /\ pc' \in Connecting
               /\ UNCHANGED session
          /\ serial' # serial => pc = "connect" /\ pc' = "have_conn"
          /\ pc = "have_conn" =>
               /\ pc' = "request_loop"
               /\ session' # None /\ session'.conn = conn
               /\ conn' = None /\ UNCHANGED serial
               /\ session # None =>
                    /\ UNCHANGED calls
                    /\ session' = [session EXCEPT !.conn = conn]]_vars

\* C19's case: request_loop returned without an error and a new connection
\* is about to replace the one it ran on.
C19_Witness ==
    /\ pc = "have_conn" /\ session # None /\ loopResult = "Ok"
    /\ session.conn.serial # conn.serial /\ serial = 1

\* C20 as stated: on every path on which entry returns, the error returns
\* included, the NSM handle opened by nsm_init has been released by nsm_exit.
C20_HandleReleasedOnEveryReturn ==
    pc = "returned" => nsm = "exited"

=============================================================================
